---- MODULE Spec2Model ----
(***************************************************************************)
(* Model of the two command-line authorization checks of                   *)
(* openfga-cedar-comparison:                                               *)
(*   Flow B  cedar/main.go   : SQL hydration (queryEntityData), entity     *)
(*                             graph construction and Cedar evaluation     *)
(*                             (checkAuthorization), driven by main;       *)
(*   Flow A  openfga/main.go : store / model discovery and one Check RPC.  *)
(* The relational tables follow cedar/schema.sql, the Cedar policy set and *)
(* the OpenFGA authorization model follow the texts quoted in the          *)
(* repository's documentation.                                             *)
(***************************************************************************)
EXTENDS Integers, Sequences, FiniteSets, TLC

VARIABLES
    db,          \* the seven relational tables read by Flow B
    tuples,      \* relationship tuples held by the seeded OpenFGA store
    flow,        \* which program runs: "none", "A" (openfga) or "B" (cedar)
    pc,          \* position of the running program
    osArgs,      \* positional command-line arguments (os.Args[1:])
    userID,
    documentID,
    policySet,   \* "none" until cedar.NewPolicySetFromBytes succeeded
    rows,        \* *sql.Rows: result rows not yet delivered by rows.Next()
    rowsErr,     \* *sql.Rows: iteration ended by an error (rows.Err() != nil)
    data,        \* the EntityData aggregate under construction
    entities,    \* cedar.EntityMap built by checkAuthorization
    request,     \* cedar.Request built by checkAuthorization
    allowed,     \* boolean returned by checkAuthorization: "unset", "true", "false"
    storeId,     \* Flow A: store id set on the client
    modelId,     \* Flow A: authorization model id set on the client
    stdout,      \* lines printed with fmt.Printf
    fatal,       \* log.Fatal diagnostic ("" if none)
    exitCode,    \* -1 while running, else the process exit status
    env,         \* Flow A: environment variables of the process
    fgaCalls     \* Flow A: requests sent to the OpenFGA server, in order

vars == << db, tuples, flow, pc, osArgs, userID, documentID, policySet, rows,
           rowsErr, data, entities, request, allowed, storeId, modelId,
           stdout, fatal, exitCode, env, fgaCalls >>

-----------------------------------------------------------------------------
(* Bounds of the explored data states.                                     *)

MaxMembers == 2
MaxGrants == 2

UserIds == {"alice", "bob"}
OrgIds == {"org1", "org2"}
DocIds == {"doc1"}
FolderIds == {"folder1"}
UnknownUser == "mallory"
UnknownDoc == "doc9"

PermissionTypes == {"viewer", "editor"}

-----------------------------------------------------------------------------
(* SQL values.  A nullable column is a sql.NullString; a Go *string is     *)
(* modelled the same way (Valid = FALSE is nil).                           *)

NULL == [Valid |-> FALSE, String |-> ""]

Str(s) == [Valid |-> TRUE, String |-> s]

SubsetsUpTo(S, n) == {T \in SUBSET S : Cardinality(T) <= n}

(* All orders in which the rows of a result set can be delivered.          *)
Orderings(S) ==
    {s \in [1..Cardinality(S) -> S] : \A i, j \in 1..Cardinality(S) : s[i] = s[j] => i = j}

-----------------------------------------------------------------------------
(* The fixture of cedar/schema.sql.                                        *)

FixtureDB ==
    [ organizations |-> {"org1", "org2"},
      users |-> {"alice", "bob", "charlie", "david", "eve"},
      organization_members |->
        { [user_id |-> "alice", organization_id |-> "org1"],
          [user_id |-> "bob", organization_id |-> "org1"],
          [user_id |-> "charlie", organization_id |-> "org1"],
          [user_id |-> "david", organization_id |-> "org2"],
          [user_id |-> "eve", organization_id |-> "org2"] },
      folders |->
        { [id |-> "folder1", organization_id |-> "org1", owner_id |-> Str("alice")],
          [id |-> "folder2", organization_id |-> "org2", owner_id |-> Str("david")] },
      documents |->
        { [id |-> "doc1", organization_id |-> "org1", owner_id |-> Str("alice"),
           folder_id |-> Str("folder1")],
          [id |-> "doc2", organization_id |-> "org1", owner_id |-> Str("bob"),
           folder_id |-> Str("folder1")],
          [id |-> "doc3", organization_id |-> "org2", owner_id |-> Str("david"),
           folder_id |-> Str("folder2")],
          [id |-> "doc4", organization_id |-> "org1", owner_id |-> Str("alice"),
           folder_id |-> NULL] },
      document_permissions |->
        { [document_id |-> "doc2", user_id |-> "charlie", permission_type |-> "viewer"],
          [document_id |-> "doc4", user_id |-> "bob", permission_type |-> "editor"],
          [document_id |-> "doc4", user_id |-> "charlie", permission_type |-> "viewer"] },
      folder_permissions |->
        { [folder_id |-> "folder1", user_id |-> "bob", permission_type |-> "viewer"],
          [folder_id |-> "folder2", user_id |-> "eve", permission_type |-> "editor"] } ]

(* The tuples written by the OpenFGA setup script.                         *)
FixtureTuples ==
    { [user |-> "user:alice", relation |-> "member", object |-> "organization:org1"],
      [user |-> "user:bob", relation |-> "member", object |-> "organization:org1"],
      [user |-> "user:charlie", relation |-> "member", object |-> "organization:org1"],
      [user |-> "user:david", relation |-> "member", object |-> "organization:org2"],
      [user |-> "user:eve", relation |-> "member", object |-> "organization:org2"],
      [user |-> "organization:org1", relation |-> "organization", object |-> "folder:folder1"],
      [user |-> "user:alice", relation |-> "owner", object |-> "folder:folder1"],
      [user |-> "organization:org2", relation |-> "organization", object |-> "folder:folder2"],
      [user |-> "user:david", relation |-> "owner", object |-> "folder:folder2"],
      [user |-> "organization:org1", relation |-> "organization", object |-> "document:doc1"],
      [user |-> "user:alice", relation |-> "owner", object |-> "document:doc1"],
      [user |-> "folder:folder1", relation |-> "parent_folder", object |-> "document:doc1"],
      [user |-> "organization:org1", relation |-> "organization", object |-> "document:doc2"],
      [user |-> "user:bob", relation |-> "owner", object |-> "document:doc2"],
      [user |-> "folder:folder1", relation |-> "parent_folder", object |-> "document:doc2"],
      [user |-> "organization:org2", relation |-> "organization", object |-> "document:doc3"],
      [user |-> "user:david", relation |-> "owner", object |-> "document:doc3"],
      [user |-> "folder:folder2", relation |-> "parent_folder", object |-> "document:doc3"],
      [user |-> "organization:org1", relation |-> "organization", object |-> "document:doc4"],
      [user |-> "user:alice", relation |-> "owner", object |-> "document:doc4"],
      [user |-> "user:charlie", relation |-> "viewer", object |-> "document:doc2"],
      [user |-> "user:bob", relation |-> "editor", object |-> "document:doc4"],
      [user |-> "user:charlie", relation |-> "viewer", object |-> "document:doc4"],
      [user |-> "user:bob", relation |-> "viewer", object |-> "folder:folder1"],
      [user |-> "user:eve", relation |-> "editor", object |-> "folder:folder2"] }

-----------------------------------------------------------------------------
(* The data states explored: every table content over the identifier sets  *)
(* above that the constraints of schema.sql admit (primary keys, foreign   *)
(* keys, NOT NULL, the CHECK on permission_type and the UNIQUE grants).    *)

NullableOf(S) == {NULL} \cup {Str(s) : s \in S}

MemberRows == [user_id : UserIds, organization_id : OrgIds]

GrantRows ==
    [resource_type : {"document"}, resource_id : DocIds, user_id : UserIds,
     permission_type : PermissionTypes]
    \cup
    [resource_type : {"folder"}, resource_id : FolderIds, user_id : UserIds,
     permission_type : PermissionTypes]

FolderRowsOf(f) ==
    {[id |-> i, organization_id |-> f[i].organization_id, owner_id |-> f[i].owner_id] :
        i \in DOMAIN f}

DocumentRowsOf(d) ==
    {[id |-> i, organization_id |-> d[i].organization_id, owner_id |-> d[i].owner_id,
      folder_id |-> d[i].folder_id] : i \in DOMAIN d}

DocumentPermissionRowsOf(g) ==
    {[document_id |-> r.resource_id, user_id |-> r.user_id,
      permission_type |-> r.permission_type] :
        r \in {x \in g : x.resource_type = "document"}}

FolderPermissionRowsOf(g) ==
    {[folder_id |-> r.resource_id, user_id |-> r.user_id,
      permission_type |-> r.permission_type] :
        r \in {x \in g : x.resource_type = "folder"}}

MakeDB(m, f, d, g) ==
    [ organizations |-> OrgIds,
      users |-> UserIds,
      organization_members |-> m,
      folders |-> FolderRowsOf(f),
      documents |-> DocumentRowsOf(d),
      document_permissions |-> DocumentPermissionRowsOf(g),
      folder_permissions |-> FolderPermissionRowsOf(g) ]

(* The relationship tuples the OpenFGA setup script writes for a data      *)
(* state: one tuple per membership, organization, owner, parent folder and *)
(* grant, in the "type:id" notation of the script.                         *)
TuplesOf(d) ==
    {[user |-> "user:" \o m.user_id, relation |-> "member",
      object |-> "organization:" \o m.organization_id] : m \in d.organization_members}
    \cup
    {[user |-> "organization:" \o f.organization_id, relation |-> "organization",
      object |-> "folder:" \o f.id] : f \in d.folders}
    \cup
    {[user |-> "user:" \o f.owner_id.String, relation |-> "owner",
      object |-> "folder:" \o f.id] : f \in {x \in d.folders : x.owner_id.Valid}}
    \cup
    {[user |-> "organization:" \o r.organization_id, relation |-> "organization",
      object |-> "document:" \o r.id] : r \in d.documents}
    \cup
    {[user |-> "user:" \o r.owner_id.String, relation |-> "owner",
      object |-> "document:" \o r.id] : r \in {x \in d.documents : x.owner_id.Valid}}
    \cup
    {[user |-> "folder:" \o r.folder_id.String, relation |-> "parent_folder",
      object |-> "document:" \o r.id] : r \in {x \in d.documents : x.folder_id.Valid}}
    \cup
    {[user |-> "user:" \o p.user_id, relation |-> p.permission_type,
      object |-> "document:" \o p.document_id] : p \in d.document_permissions}
    \cup
    {[user |-> "user:" \o p.user_id, relation |-> p.permission_type,
      object |-> "folder:" \o p.folder_id] : p \in d.folder_permissions}

-----------------------------------------------------------------------------
(* The query of queryEntityData, one operator per common table expression. *)

(* Variant of user_org without the filter on $1: any membership row.       *)
user_org_anyUser(d, uid) ==
    LET all == {m.organization_id : m \in d.organization_members}
    IN  IF all = {} THEN {{}} ELSE {{o} : o \in all}

(* user_org: the memberships of $1, cut to at most one row by LIMIT 1.     *)
(* There is no ORDER BY, so any one of the memberships may be the row      *)
(* kept: the operator gives every result the database may return.          *)
user_org(d, uid) ==
    LET all == {m.organization_id : m \in {x \in d.organization_members : x.user_id = uid}}
    IN  IF all = {} THEN {{}} ELSE {{o} : o \in all}

(* Variant of doc_info joining the document with every folder instead of  *)
(* the folder its folder_id names.                                         *)
doc_info_joinAnyFolder(d, did) ==
    {[doc_id |-> r.id, doc_org_id |-> r.organization_id,
      folder_id |-> r.folder_id, doc_owner_id |-> r.owner_id,
      folder_org_id |-> Str(f.organization_id),
      folder_owner_id |-> f.owner_id] :
        r \in {x \in d.documents : x.id = did}, f \in d.folders}

(* doc_info: the document $2 LEFT JOINed with its folder.                  *)
doc_info(d, did) ==
    UNION { LET fs == {f \in d.folders : r.folder_id.Valid /\ f.id = r.folder_id.String}
            IN  IF fs = {}
                THEN {[doc_id |-> r.id, doc_org_id |-> r.organization_id,
                       folder_id |-> r.folder_id, doc_owner_id |-> r.owner_id,
                       folder_org_id |-> NULL, folder_owner_id |-> NULL]}
                ELSE {[doc_id |-> r.id, doc_org_id |-> r.organization_id,
                       folder_id |-> r.folder_id, doc_owner_id |-> r.owner_id,
                       folder_org_id |-> Str(f.organization_id),
                       folder_owner_id |-> f.owner_id] : f \in fs}
          : r \in {x \in d.documents : x.id = did} }

(* Variant of doc_perms without the filter on $2: the grants on every     *)
(* document.                                                               *)
doc_perms_allDocuments(d, did) ==
    {[document_id |-> p.document_id, user_id |-> p.user_id,
      permission_type |-> p.permission_type, resource_type |-> "document"] :
        p \in d.document_permissions}

doc_perms(d, did) ==
    {[document_id |-> p.document_id, user_id |-> p.user_id,
      permission_type |-> p.permission_type, resource_type |-> "document"] :
        p \in {x \in d.document_permissions : x.document_id = did}}

(* Variant of folder_perms joining on the document id instead of the       *)
(* folder id.                                                              *)
folder_perms_joinOnDocId(d, di) ==
    {[document_id |-> p.folder_id, user_id |-> p.user_id,
      permission_type |-> p.permission_type, resource_type |-> "folder"] :
        p \in {x \in d.folder_permissions :
                 \E i \in di : i.folder_id.Valid /\ x.folder_id = i.doc_id}}

folder_perms(d, di) ==
    {[document_id |-> p.folder_id, user_id |-> p.user_id,
      permission_type |-> p.permission_type, resource_type |-> "folder"] :
        p \in {x \in d.folder_permissions :
                 \E i \in di : i.folder_id.Valid /\ x.folder_id = i.folder_id.String}}

(* Variant of the final SELECT with an inner join on the grants: no row    *)
(* for a document without grants.                                          *)
SelectRows_innerJoin(uo, di, dp) ==
    UNION { {[user_org_id |-> Str(p[1]), doc_id |-> Str(p[2].doc_id),
              doc_org_id |-> Str(p[2].doc_org_id), folder_id |-> p[2].folder_id,
              doc_owner_id |-> p[2].doc_owner_id,
              folder_org_id |-> p[2].folder_org_id,
              folder_owner_id |-> p[2].folder_owner_id,
              perm_user_id |-> g.user_id, perm_type |-> g.permission_type,
              resource_type |-> g.resource_type] : g \in dp}
          : p \in uo \X di }

(* The final SELECT: user_org CROSS JOIN doc_info LEFT JOIN perms ON true, *)
(* with the three grant columns COALESCEd to ''.                           *)
SelectRows(uo, di, dp) ==
    UNION { IF dp = {}
            THEN {[user_org_id |-> Str(p[1]), doc_id |-> Str(p[2].doc_id),
                   doc_org_id |-> Str(p[2].doc_org_id), folder_id |-> p[2].folder_id,
                   doc_owner_id |-> p[2].doc_owner_id,
                   folder_org_id |-> p[2].folder_org_id,
                   folder_owner_id |-> p[2].folder_owner_id,
                   perm_user_id |-> "", perm_type |-> "", resource_type |-> ""]}
            ELSE {[user_org_id |-> Str(p[1]), doc_id |-> Str(p[2].doc_id),
                   doc_org_id |-> Str(p[2].doc_org_id), folder_id |-> p[2].folder_id,
                   doc_owner_id |-> p[2].doc_owner_id,
                   folder_org_id |-> p[2].folder_org_id,
                   folder_owner_id |-> p[2].folder_owner_id,
                   perm_user_id |-> g.user_id, perm_type |-> g.permission_type,
                   resource_type |-> g.resource_type] : g \in dp}
          : p \in uo \X di }

(* Every result set the query may return for ($1, $2) = (uid, did).        *)
QueryResults(d, uid, did) ==
    {SelectRows(uo, doc_info(d, did), doc_perms(d, did) \cup folder_perms(d, doc_info(d, did))) :
        uo \in user_org(d, uid)}

-----------------------------------------------------------------------------
(* EntityData and the body of the rows.Next() loop.                        *)

EmptyMap == [k \in {} |-> <<>>]

MapGet(m, k) == IF k \in DOMAIN m THEN m[k] ELSE <<>>

(* Variant of MapAppend that appends the value twice.                      *)
MapAppend_twice(m, k, v) == (k :> Append(Append(MapGet(m, k), v), v)) @@ m

MapAppend(m, k, v) == (k :> Append(MapGet(m, k), v)) @@ m

NewEntityData ==
    [ UserOrganization |-> "", DocumentID |-> "", DocumentOrg |-> "",
      FolderID |-> NULL, DocumentOwner |-> NULL, FolderOrg |-> NULL,
      FolderOwner |-> NULL,
      DocumentPermissions |-> EmptyMap, FolderPermissions |-> EmptyMap ]

SetBasic(e, row) ==
    IF e.DocumentID = ""
    THEN [e EXCEPT !.UserOrganization = row.user_org_id.String,
                   !.DocumentID = row.doc_id.String,
                   !.DocumentOrg = row.doc_org_id.String,
                   !.FolderID = row.folder_id,
                   !.DocumentOwner = row.doc_owner_id,
                   !.FolderOrg = row.folder_org_id,
                   !.FolderOwner = row.folder_owner_id]
    ELSE e

ProcessPermissions(e, row) ==
    IF row.perm_user_id # "" /\ row.perm_type # ""
    THEN IF row.resource_type = "document"
         THEN [e EXCEPT !.DocumentPermissions =
                            MapAppend(@, row.perm_type, row.perm_user_id)]
         ELSE IF row.resource_type = "folder"
              THEN [e EXCEPT !.FolderPermissions =
                                 MapAppend(@, row.perm_type, row.perm_user_id)]
              ELSE e
    ELSE e

FoldRow(e, row) == ProcessPermissions(SetBasic(e, row), row)

-----------------------------------------------------------------------------
(* Cedar entities and the request, as checkAuthorization builds them.      *)

UserType == "DocumentManagement::User"
OrganizationType == "DocumentManagement::Organization"
DocumentType == "DocumentManagement::Document"
FolderType == "DocumentManagement::Folder"
ActionType == "DocumentManagement::Action"

NewEntityUID(t, i) == [Type |-> t, ID |-> i]

EmptyRecord == [k \in {} |-> ""]

EmptyEntityMap == [u \in {} |-> EmptyRecord]

UserSet(ids) == {NewEntityUID(UserType, ids[i]) : i \in 1..Len(ids)}

userAttrs(e) ==
    IF e.UserOrganization # ""
    THEN ("organization" :> NewEntityUID(OrganizationType, e.UserOrganization))
    ELSE EmptyRecord

(* Variant of docAttrs that always submits the editors and viewers sets,   *)
(* empty ones included.                                                    *)
docAttrs_emptySets(e) ==
    ("viewers" :> UserSet(MapGet(e.DocumentPermissions, "viewer")))
    @@
    ("editors" :> UserSet(MapGet(e.DocumentPermissions, "editor")))
    @@
    (IF e.FolderID.Valid
     THEN ("parent_folder" :> NewEntityUID(FolderType, e.FolderID.String))
     ELSE EmptyRecord)
    @@
    (IF e.DocumentOwner.Valid
     THEN ("owner" :> NewEntityUID(UserType, e.DocumentOwner.String))
     ELSE EmptyRecord)
    @@
    (IF e.DocumentOrg # ""
     THEN ("organization" :> NewEntityUID(OrganizationType, e.DocumentOrg))
     ELSE EmptyRecord)
    @@
    ("name" :> e.DocumentID)

docAttrs(e) ==
    (IF Len(MapGet(e.DocumentPermissions, "viewer")) > 0
     THEN ("viewers" :> UserSet(MapGet(e.DocumentPermissions, "viewer")))
     ELSE EmptyRecord)
    @@
    (IF Len(MapGet(e.DocumentPermissions, "editor")) > 0
     THEN ("editors" :> UserSet(MapGet(e.DocumentPermissions, "editor")))
     ELSE EmptyRecord)
    @@
    (IF e.FolderID.Valid
     THEN ("parent_folder" :> NewEntityUID(FolderType, e.FolderID.String))
     ELSE EmptyRecord)
    @@
    (IF e.DocumentOwner.Valid
     THEN ("owner" :> NewEntityUID(UserType, e.DocumentOwner.String))
     ELSE EmptyRecord)
    @@
    (IF e.DocumentOrg # ""
     THEN ("organization" :> NewEntityUID(OrganizationType, e.DocumentOrg))
     ELSE EmptyRecord)
    @@
    ("name" :> e.DocumentID)

folderAttrs(e) ==
    (IF Len(MapGet(e.FolderPermissions, "viewer")) > 0
     THEN ("viewers" :> UserSet(MapGet(e.FolderPermissions, "viewer")))
     ELSE EmptyRecord)
    @@
    (IF Len(MapGet(e.FolderPermissions, "editor")) > 0
     THEN ("editors" :> UserSet(MapGet(e.FolderPermissions, "editor")))
     ELSE EmptyRecord)
    @@
    (IF e.FolderOwner.Valid
     THEN ("owner" :> NewEntityUID(UserType, e.FolderOwner.String))
     ELSE EmptyRecord)
    @@
    (IF e.FolderOrg.Valid
     THEN ("organization" :> NewEntityUID(OrganizationType, e.FolderOrg.String))
     ELSE EmptyRecord)
    @@
    ("name" :> e.FolderID.String)

(* Variant of BuildEntities that keys the document and the user entity by *)
(* the identifiers of the aggregate instead of the arguments.              *)
BuildEntities_keyedByAggregate(e, uid, did) ==
    (NewEntityUID(DocumentType, e.DocumentID) :> docAttrs(e))
    @@
    (IF e.FolderID.Valid
     THEN (NewEntityUID(FolderType, e.FolderID.String) :> folderAttrs(e))
     ELSE EmptyEntityMap)
    @@
    (NewEntityUID(UserType, uid) :> userAttrs(e))
    @@
    (IF e.UserOrganization # ""
     THEN (NewEntityUID(OrganizationType, e.UserOrganization) :>
              ("name" :> e.UserOrganization))
     ELSE EmptyEntityMap)

(* The EntityMap: later assignments to the same UID win, as in the code.   *)
BuildEntities(e, uid, did) ==
    (NewEntityUID(DocumentType, did) :> docAttrs(e))
    @@
    (IF e.FolderID.Valid
     THEN (NewEntityUID(FolderType, e.FolderID.String) :> folderAttrs(e))
     ELSE EmptyEntityMap)
    @@
    (NewEntityUID(UserType, uid) :> userAttrs(e))
    @@
    (IF e.UserOrganization # ""
     THEN (NewEntityUID(OrganizationType, e.UserOrganization) :>
              ("name" :> e.UserOrganization))
     ELSE EmptyEntityMap)

NoRequest == [Principal |-> NewEntityUID("", ""), Action |-> NewEntityUID("", ""),
              Resource |-> NewEntityUID("", ""), Context |-> EmptyRecord]

BuildRequest(uid, did) ==
    [Principal |-> NewEntityUID(UserType, uid),
     Action |-> NewEntityUID(ActionType, "ViewDocument"),
     Resource |-> NewEntityUID(DocumentType, did),
     Context |-> EmptyRecord]

-----------------------------------------------------------------------------
(* The Cedar policy set (policies.cedar as quoted in the documentation):   *)
(* eleven permit policies, each an action scope and a `when` condition,    *)
(* the condition a conjunction evaluated left to right.                    *)
(*   has    : <var>[.via] has attr                                         *)
(*   eq     : principal == <var>[.via].attr                                *)
(*   in     : principal in <var>[.via].attr                                *)
(*   attreq : principal.attr == <var>.attr                                 *)

Cond(op, var, via, attr) == [op |-> op, var |-> var, via |-> via, attr |-> attr]

(* Variant of OrgMatch without the comparison of the two organizations.   *)
OrgMatch_noComparison ==
    << Cond("has", "principal", "", "organization"),
       Cond("has", "resource", "", "organization") >>

OrgMatch ==
    << Cond("has", "principal", "", "organization"),
       Cond("has", "resource", "", "organization"),
       Cond("attreq", "resource", "", "organization") >>

OwnerMatch ==
    << Cond("has", "resource", "", "owner"), Cond("eq", "resource", "", "owner") >>

EditorMatch ==
    << Cond("has", "resource", "", "editors"), Cond("in", "resource", "", "editors") >>

ViewerMatch ==
    << Cond("has", "resource", "", "viewers"), Cond("in", "resource", "", "viewers") >>

FolderEditorMatch ==
    << Cond("has", "resource", "", "parent_folder"),
       Cond("has", "resource", "parent_folder", "editors"),
       Cond("in", "resource", "parent_folder", "editors") >>

FolderOwnerMatch ==
    << Cond("has", "resource", "", "parent_folder"),
       Cond("has", "resource", "parent_folder", "owner"),
       Cond("eq", "resource", "parent_folder", "owner") >>

FolderViewerMatch ==
    << Cond("has", "resource", "", "parent_folder"),
       Cond("has", "resource", "parent_folder", "viewers"),
       Cond("in", "resource", "parent_folder", "viewers") >>

(* Variant of the policy set whose conditions read the attributes without *)
(* testing their presence first (no `has` conjunct).                       *)
CedarPolicies_withoutHas ==
    << [actions |-> {"ViewDocument"},
        when |-> << Cond("attreq", "resource", "", "organization") >>],
       [actions |-> {"ViewFolder"},
        when |-> << Cond("attreq", "resource", "", "organization") >>],
       [actions |-> {"ViewDocument", "EditDocument", "DeleteDocument", "ShareDocument"},
        when |-> << Cond("eq", "resource", "", "owner") >>],
       [actions |-> {"EditDocument", "ShareDocument"},
        when |-> << Cond("in", "resource", "", "editors") >>],
       [actions |-> {"ViewDocument"},
        when |-> << Cond("in", "resource", "", "viewers") >>],
       [actions |-> {"ViewFolder", "EditFolder", "DeleteFolder", "ShareFolder"},
        when |-> << Cond("eq", "resource", "", "owner") >>],
       [actions |-> {"ViewFolder", "EditFolder", "ShareFolder"},
        when |-> << Cond("in", "resource", "", "editors") >>],
       [actions |-> {"ViewDocument", "EditDocument", "ShareDocument"},
        when |-> << Cond("in", "resource", "parent_folder", "editors") >>],
       [actions |-> {"ViewDocument", "EditDocument", "ShareDocument"},
        when |-> << Cond("eq", "resource", "parent_folder", "owner") >>],
       [actions |-> {"ViewFolder"},
        when |-> << Cond("in", "resource", "", "viewers") >>],
       [actions |-> {"ViewDocument"},
        when |-> << Cond("in", "resource", "parent_folder", "viewers") >>] >>

CedarPolicies ==
    << [actions |-> {"ViewDocument"}, when |-> OrgMatch],
       [actions |-> {"ViewFolder"}, when |-> OrgMatch],
       [actions |-> {"ViewDocument", "EditDocument", "DeleteDocument", "ShareDocument"},
        when |-> OwnerMatch],
       [actions |-> {"EditDocument", "ShareDocument"}, when |-> EditorMatch],
       [actions |-> {"ViewDocument"}, when |-> ViewerMatch],
       [actions |-> {"ViewFolder", "EditFolder", "DeleteFolder", "ShareFolder"},
        when |-> OwnerMatch],
       [actions |-> {"ViewFolder", "EditFolder", "ShareFolder"}, when |-> EditorMatch],
       [actions |-> {"ViewDocument", "EditDocument", "ShareDocument"},
        when |-> FolderEditorMatch],
       [actions |-> {"ViewDocument", "EditDocument", "ShareDocument"},
        when |-> FolderOwnerMatch],
       [actions |-> {"ViewFolder"}, when |-> ViewerMatch],
       [actions |-> {"ViewDocument"}, when |-> FolderViewerMatch] >>

(* Attribute access: reading an attribute the entity does not carry (or of *)
(* an entity without a record) is an evaluation error.                     *)
HasAttr(ents, uid, a) == uid \in DOMAIN ents /\ a \in DOMAIN ents[uid]

AttrOf(ents, uid, a) ==
    IF HasAttr(ents, uid, a) THEN [ok |-> TRUE, v |-> ents[uid][a]]
    ELSE [ok |-> FALSE, v |-> NewEntityUID("", "")]

VarOf(req, c) == IF c.var = "principal" THEN req.Principal ELSE req.Resource

BaseOf(ents, req, c) ==
    IF c.via = "" THEN [ok |-> TRUE, v |-> VarOf(req, c)]
    ELSE AttrOf(ents, VarOf(req, c), c.via)

Bool(b) == IF b THEN "true" ELSE "false"

EvalCond(ents, req, c) ==
    LET base == BaseOf(ents, req, c) IN
    IF ~base.ok THEN "error"
    ELSE IF c.op = "has" THEN Bool(HasAttr(ents, base.v, c.attr))
    ELSE LET a == AttrOf(ents, base.v, c.attr) IN
         IF c.op = "attreq"
         THEN LET p == AttrOf(ents, req.Principal, c.attr) IN
              IF ~p.ok \/ ~a.ok THEN "error" ELSE Bool(p.v = a.v)
         ELSE IF ~a.ok THEN "error"
         ELSE IF c.op = "eq" THEN Bool(req.Principal = a.v)
         ELSE Bool(req.Principal \in a.v)

RECURSIVE EvalWhen(_, _, _)
EvalWhen(ents, req, conds) ==
    IF conds = << >> THEN "true"
    ELSE LET r == EvalCond(ents, req, Head(conds)) IN
         IF r = "true" THEN EvalWhen(ents, req, Tail(conds)) ELSE r

InScope(policy, req) == req.Action.Type = ActionType /\ req.Action.ID \in policy.actions

(* cedar.Authorize: Allow iff some permit policy is satisfied (the set has *)
(* no forbid policy); Errors lists the policies whose evaluation failed.   *)
Authorize(ps, ents, req) ==
    LET sat == {i \in 1..Len(ps) : InScope(ps[i], req) /\ EvalWhen(ents, req, ps[i].when) = "true"}
        err == {i \in 1..Len(ps) : InScope(ps[i], req) /\ EvalWhen(ents, req, ps[i].when) = "error"}
    IN  [Decision |-> IF sat # {} THEN "Allow" ELSE "Deny", Errors |-> err]

-----------------------------------------------------------------------------
(* The OpenFGA authorization model, evaluated over a set of tuples.        *)

HasTuple(T, u, r, o) == [user |-> u, relation |-> r, object |-> o] \in T

organization_member(T, u, o) == HasTuple(T, u, "member", o)

folder_owner(T, u, f) == HasTuple(T, u, "owner", f)

folder_editor(T, u, f) == HasTuple(T, u, "editor", f) \/ folder_owner(T, u, f)

folder_viewer(T, u, f) ==
    \/ HasTuple(T, u, "viewer", f)
    \/ folder_editor(T, u, f)
    \/ \E t \in T : t.relation = "organization" /\ t.object = f
                    /\ organization_member(T, u, t.user)

document_owner(T, u, d) == HasTuple(T, u, "owner", d)

document_editor(T, u, d) ==
    \/ HasTuple(T, u, "editor", d)
    \/ document_owner(T, u, d)
    \/ \E t \in T : t.relation = "parent_folder" /\ t.object = d
                    /\ folder_editor(T, u, t.user)

document_viewer(T, u, d) ==
    \/ HasTuple(T, u, "viewer", d)
    \/ document_editor(T, u, d)
    \/ \E t \in T : t.relation = "parent_folder" /\ t.object = d
                    /\ folder_viewer(T, u, t.user)
    \/ \E t \in T : t.relation = "organization" /\ t.object = d
                    /\ organization_member(T, u, t.user)

document_can_view(T, u, d) == document_viewer(T, u, d)

-----------------------------------------------------------------------------
(* The environment of a run.                                               *)

(* Organization names are interchangeable, so the stored documents and     *)
(* folders are placed in one organization and the other one is foreign.    *)
ResourceOrgIds == {"org1"}

BoundedDBs ==
    {MakeDB(m, f, d, g) :
        m \in SubsetsUpTo(MemberRows, MaxMembers),
        f \in [FolderIds -> [organization_id : ResourceOrgIds,
                             owner_id : NullableOf(UserIds)]],
        d \in [DocIds -> [organization_id : ResourceOrgIds,
                          owner_id : NullableOf(UserIds),
                          folder_id : NullableOf(FolderIds)]],
        g \in SubsetsUpTo(GrantRows, MaxGrants)}

(* Command lines: no argument, one, two, or two and a surplus one.  The    *)
(* identifiers are the stored ones and one unknown user and document.      *)
ArgVectors(d) ==
    LET us == d.users \cup {UnknownUser}
        ds == {r.id : r \in d.documents} \cup {UnknownDoc}
    IN  {<< >>, <<UnknownUser>>, <<UnknownUser, UnknownDoc, "extra">>}
        \cup {<<u, x>> : u \in us, x \in ds}

(* The OpenFGA server: the store seeded by the setup script, which holds   *)
(* the tuples and one authorization model, and possibly a store created    *)
(* earlier that never received a model.                                    *)
SeededStore == "store1"
OtherStore == "store0"

ListStoresResponses == { << >>, <<SeededStore>>, <<OtherStore, SeededStore>> }

AuthorizationModels(store) == IF store = SeededStore THEN <<"model1">> ELSE << >>

(* What ReadAuthorizationModels may answer for a store, latest model       *)
(* first: the models of the setup script, or those preceded by a model     *)
(* uploaded to the seeded store afterwards.                                *)
ReadAuthorizationModelsResponses(store) ==
    {AuthorizationModels(store)}
    \cup (IF store = SeededStore THEN {<<"model2">> \o AuthorizationModels(store)} ELSE {})

(* The environment of a process.  openfga-check reads OPENFGA_STORE_ID     *)
(* only; OPENFGA_MODEL_ID stands for a model identifier configured in the  *)
(* environment.                                                            *)
NoEnv == [OPENFGA_STORE_ID |-> "", OPENFGA_MODEL_ID |-> ""]

Environments == [OPENFGA_STORE_ID : {"", SeededStore}, OPENFGA_MODEL_ID : {"", "model1"}]

(* One request to the OpenFGA server, with the store and model set on the  *)
(* client when it was sent.                                                *)
FgaCall(api, store, model, body, result) ==
    [api |-> api, store |-> store, model |-> model, user |-> body.user,
     relation |-> body.relation, object |-> body.object, result |-> result]

NoBody == [user |-> "", relation |-> "", object |-> ""]

(* Variant of the Check body asking for can_edit.                          *)
CheckRequest_canEdit(uid, did) ==
    [user |-> "user:" \o uid, relation |-> "can_edit", object |-> "document:" \o did]

(* The body of the Check request of openfga checkAuthorization.            *)
CheckRequest(uid, did) ==
    [user |-> "user:" \o uid, relation |-> "can_view", object |-> "document:" \o did]

-----------------------------------------------------------------------------
(* Process start and end.                                                  *)

ProcessInit ==
    /\ flow = "none"
    /\ pc = "idle"
    /\ osArgs = << >>
    /\ userID = ""
    /\ documentID = ""
    /\ policySet = << >>
    /\ rows = << >>
    /\ rowsErr = FALSE
    /\ data = NewEntityData
    /\ entities = EmptyEntityMap
    /\ request = NoRequest
    /\ allowed = "unset"
    /\ storeId = ""
    /\ modelId = ""
    /\ stdout = << >>
    /\ fatal = ""
    /\ exitCode = -1
    /\ env = NoEnv
    /\ fgaCalls = << >>

Init ==
    /\ db \in BoundedDBs
    /\ tuples = TuplesOf(db)
    /\ ProcessInit

InitFixture ==
    /\ db = FixtureDB
    /\ tuples = FixtureTuples
    /\ ProcessInit

(* log.Fatal: the diagnostic goes to standard error, the process exits 1.  *)
Fatal(msg) ==
    /\ fatal' = msg
    /\ exitCode' = 1
    /\ pc' = "exit"

(* The shell starts one of the two programs.                               *)
Exec(f) ==
    /\ pc = "idle"
    /\ flow' = f
    /\ \E argv \in ArgVectors(db) : osArgs' = argv
    /\ env' \in (IF f = "A" THEN Environments ELSE {NoEnv})
    /\ pc' = "main"
    /\ UNCHANGED << db, tuples, userID, documentID, policySet, rows, rowsErr, data,
                    entities, request, allowed, storeId, modelId, fgaCalls, stdout,
                    fatal, exitCode >>

ExecCedarCheck == Exec("B")

ExecOpenfgaCheck == Exec("A")

(* Variant in which the aggregate of a run survives the process (a cache  *)
(* shared between invocations).                                            *)
ProcessExit_keepsAggregate ==
    /\ pc = "exit"
    /\ flow' = "none"
    /\ pc' = "idle"
    /\ osArgs' = << >>
    /\ userID' = ""
    /\ documentID' = ""
    /\ policySet' = << >>
    /\ rows' = << >>
    /\ rowsErr' = FALSE
    /\ entities' = EmptyEntityMap
    /\ request' = NoRequest
    /\ allowed' = "unset"
    /\ storeId' = ""
    /\ modelId' = ""
    /\ stdout' = << >>
    /\ fatal' = ""
    /\ exitCode' = -1
    /\ env' = NoEnv
    /\ fgaCalls' = << >>
    /\ UNCHANGED << db, tuples, data >>

(* The process is gone; the next invocation starts from fresh memory.      *)
ProcessExit ==
    /\ pc = "exit"
    /\ flow' = "none"
    /\ pc' = "idle"
    /\ osArgs' = << >>
    /\ userID' = ""
    /\ documentID' = ""
    /\ policySet' = << >>
    /\ rows' = << >>
    /\ rowsErr' = FALSE
    /\ data' = NewEntityData
    /\ entities' = EmptyEntityMap
    /\ request' = NoRequest
    /\ allowed' = "unset"
    /\ storeId' = ""
    /\ modelId' = ""
    /\ stdout' = << >>
    /\ fatal' = ""
    /\ exitCode' = -1
    /\ env' = NoEnv
    /\ fgaCalls' = << >>
    /\ UNCHANGED << db, tuples >>

DecisionLine(a, u, d) ==
    [kind |-> IF a = "true" THEN "ALLOWED" ELSE "DENIED", user |-> u, doc |-> d]

-----------------------------------------------------------------------------
(* Flow B: cedar/main.go.                                                  *)

(* The argument check, and sql.Open (which validates its arguments and     *)
(* opens no connection yet).                                               *)
CedarMain_Args ==
    /\ pc = "main" /\ flow = "B"
    /\ IF Len(osArgs) + 1 < 3
       THEN /\ Fatal("Usage: ./cedar-check <userID> <documentID>")
            /\ UNCHANGED << userID, documentID >>
       ELSE /\ userID' = osArgs[1]
            /\ documentID' = osArgs[2]
            /\ \/ pc' = "readFile" /\ UNCHANGED << fatal, exitCode >>
               \/ Fatal("DB connection failed")
    /\ UNCHANGED << db, tuples, flow, osArgs, policySet, rows, rowsErr, data, entities,
                    request, allowed, storeId, modelId, env, fgaCalls, stdout >>

CedarMain_ReadFile ==
    /\ pc = "readFile"
    /\ \/ pc' = "parsePolicies" /\ UNCHANGED << fatal, exitCode >>
       \/ Fatal("Failed to load policies")
    /\ UNCHANGED << db, tuples, flow, osArgs, userID, documentID, policySet, rows,
                    rowsErr, data, entities, request, allowed, storeId, modelId, env, fgaCalls, stdout >>

CedarMain_NewPolicySet ==
    /\ pc = "parsePolicies"
    /\ \/ /\ policySet' = CedarPolicies
          /\ pc' = "query"
          /\ UNCHANGED << fatal, exitCode >>
       \/ /\ Fatal("Failed to parse policies")
          /\ UNCHANGED policySet
    /\ UNCHANGED << db, tuples, flow, osArgs, userID, documentID, rows, rowsErr, data,
                    entities, request, allowed, storeId, modelId, env, fgaCalls, stdout >>

(* db.Query succeeded: the rows of one possible result, in some order.     *)
queryEntityData_Query ==
    /\ pc = "query"
    /\ \E rs \in QueryResults(db, userID, documentID) :
          \E s \in Orderings(rs) : rows' = s
    /\ data' = NewEntityData
    /\ pc' = "rowsNext"
    /\ UNCHANGED << db, tuples, flow, osArgs, userID, documentID, policySet, rowsErr,
                    entities, request, allowed, storeId, modelId, env, fgaCalls, stdout, fatal,
                    exitCode >>

(* Variant in which main ignores the error of queryEntityData and goes on  *)
(* to the evaluation.                                                      *)
queryEntityData_QueryFailed_ignored ==
    /\ pc = "query"
    /\ pc' = "checkAuthorization"
    /\ UNCHANGED << db, tuples, flow, osArgs, userID, documentID, policySet, rows,
                    rowsErr, data, entities, request, allowed, storeId, modelId, env,
                    fgaCalls, stdout, fatal, exitCode >>

(* db.Query failed: queryEntityData returns the error and main is fatal.   *)
queryEntityData_QueryFailed ==
    /\ pc = "query"
    /\ Fatal("Failed to query entity data")
    /\ UNCHANGED << db, tuples, flow, osArgs, userID, documentID, policySet, rows,
                    rowsErr, data, entities, request, allowed, storeId, modelId, env, fgaCalls, stdout >>

(* Variant of the iteration that folds the current row without advancing  *)
(* to the next one.                                                        *)
queryEntityData_Row_keepsRow ==
    /\ pc = "rowsNext"
    /\ rows # << >>
    /\ data' = FoldRow(data, Head(rows))
    /\ UNCHANGED << db, tuples, flow, pc, osArgs, userID, documentID, policySet, rows,
                    rowsErr, entities, request, allowed, storeId, modelId, env,
                    fgaCalls, stdout, fatal, exitCode >>

(* One iteration of the loop: rows.Next() is true, Scan succeeds, the row  *)
(* is folded into the aggregate.                                           *)
queryEntityData_Row ==
    /\ pc = "rowsNext"
    /\ rows # << >>
    /\ data' = FoldRow(data, Head(rows))
    /\ rows' = Tail(rows)
    /\ UNCHANGED << db, tuples, flow, pc, osArgs, userID, documentID, policySet,
                    rowsErr, entities, request, allowed, storeId, modelId, env, fgaCalls, stdout,
                    fatal, exitCode >>

(* rows.Scan failed: queryEntityData returns the error and main is fatal.  *)
queryEntityData_ScanFailed ==
    /\ pc = "rowsNext"
    /\ rows # << >>
    /\ Fatal("Failed to query entity data")
    /\ UNCHANGED << db, tuples, flow, osArgs, userID, documentID, policySet, rows,
                    rowsErr, data, entities, request, allowed, storeId, modelId, env, fgaCalls, stdout >>

(* rows.Next() is false because the result set is exhausted: the loop ends *)
(* and queryEntityData returns (data, nil).                                *)
queryEntityData_Return ==
    /\ pc = "rowsNext"
    /\ rows = << >>
    /\ pc' = "checkAuthorization"
    /\ UNCHANGED << db, tuples, flow, osArgs, userID, documentID, policySet, rows,
                    rowsErr, data, entities, request, allowed, storeId, modelId, env, fgaCalls,
                    stdout, fatal, exitCode >>

(* rows.Next() is false because fetching the next row failed.  The loop    *)
(* ends the same way; rows.Err() is never consulted, so queryEntityData    *)
(* returns (data, nil) here too.                                           *)
queryEntityData_NextFailed ==
    /\ pc = "rowsNext"
    /\ rows # << >>
    /\ rowsErr' = TRUE
    /\ pc' = "checkAuthorization"
    /\ UNCHANGED << db, tuples, flow, osArgs, userID, documentID, policySet, rows,
                    data, entities, request, allowed, storeId, modelId, env, fgaCalls, stdout,
                    fatal, exitCode >>

(* checkAuthorization, and main's handling of its error.                   *)
checkAuthorization ==
    /\ pc = "checkAuthorization"
    /\ LET ents == BuildEntities(data, userID, documentID)
           req  == BuildRequest(userID, documentID)
           res  == Authorize(policySet, ents, req)
       IN  /\ entities' = ents
           /\ request' = req
           /\ IF res.Errors # {}
              THEN /\ allowed' = "false"
                   /\ Fatal("Authorization failed")
              ELSE /\ allowed' = Bool(res.Decision = "Allow")
                   /\ pc' = "print"
                   /\ UNCHANGED << fatal, exitCode >>
    /\ UNCHANGED << db, tuples, flow, osArgs, userID, documentID, policySet, rows,
                    rowsErr, data, storeId, modelId, env, fgaCalls, stdout >>

CedarMain_Print ==
    /\ pc = "print" /\ flow = "B"
    /\ stdout' = Append(stdout, DecisionLine(allowed, userID, documentID))
    /\ exitCode' = 0
    /\ pc' = "exit"
    /\ UNCHANGED << db, tuples, flow, osArgs, userID, documentID, policySet, rows,
                    rowsErr, data, entities, request, allowed, storeId, modelId, env, fgaCalls, fatal >>

-----------------------------------------------------------------------------
(* Flow A: openfga/main.go.                                                *)

FgaMain_Args ==
    /\ pc = "main" /\ flow = "A"
    /\ IF Len(osArgs) + 1 < 3
       THEN /\ Fatal("Usage: ./openfga-check <userID> <documentID>")
            /\ UNCHANGED << userID, documentID >>
       ELSE /\ userID' = osArgs[1]
            /\ documentID' = osArgs[2]
            /\ pc' = "newSdkClient"
            /\ UNCHANGED << fatal, exitCode >>
    /\ UNCHANGED << db, tuples, flow, osArgs, policySet, rows, rowsErr, data, entities,
                    request, allowed, storeId, modelId, env, fgaCalls, stdout >>

FgaMain_NewSdkClient ==
    /\ pc = "newSdkClient"
    /\ \/ pc' = "getStoreId" /\ UNCHANGED << fatal, exitCode >>
       \/ Fatal("Failed to create OpenFGA client")
    /\ UNCHANGED << db, tuples, flow, osArgs, userID, documentID, policySet, rows,
                    rowsErr, data, entities, request, allowed, storeId, modelId, env, fgaCalls, stdout >>

(* OPENFGA_STORE_ID is set (the setup script exports the seeded store).    *)
FgaMain_StoreFromEnv ==
    /\ pc = "getStoreId"
    /\ env.OPENFGA_STORE_ID # ""
    /\ storeId' = env.OPENFGA_STORE_ID
    /\ pc' = "readModels"
    /\ UNCHANGED << db, tuples, flow, osArgs, userID, documentID, policySet, rows,
                    rowsErr, data, entities, request, allowed, modelId, env, fgaCalls, stdout, fatal,
                    exitCode >>

(* OPENFGA_STORE_ID is empty: the first listed store is used.              *)
FgaMain_ListStores ==
    /\ pc = "getStoreId"
    /\ env.OPENFGA_STORE_ID = ""
    /\ fgaCalls' = Append(fgaCalls, FgaCall("ListStores", storeId, modelId, NoBody, "ok"))
    /\ \E stores \in ListStoresResponses :
          IF Len(stores) = 0
          THEN /\ Fatal("No OpenFGA store found")
               /\ UNCHANGED << storeId, stdout >>
          ELSE /\ storeId' = stores[1]
               /\ stdout' = Append(stdout, [kind |-> "Using store", user |-> stores[1],
                                            doc |-> ""])
               /\ pc' = "readModels"
               /\ UNCHANGED << fatal, exitCode >>
    /\ UNCHANGED << db, tuples, flow, osArgs, userID, documentID, policySet, rows,
                    rowsErr, data, entities, request, allowed, modelId, env >>

FgaMain_ListStoresFailed ==
    /\ pc = "getStoreId"
    /\ env.OPENFGA_STORE_ID = ""
    /\ fgaCalls' = Append(fgaCalls, FgaCall("ListStores", storeId, modelId, NoBody, "error"))
    /\ Fatal("Failed to list stores")
    /\ UNCHANGED << db, tuples, flow, osArgs, userID, documentID, policySet, rows,
                    rowsErr, data, entities, request, allowed, storeId, modelId, env,
                    stdout >>

(* ReadAuthorizationModels on the store set on the client.                 *)
FgaMain_ReadAuthorizationModels ==
    /\ pc = "readModels"
    /\ \E models \in ReadAuthorizationModelsResponses(storeId) :
       IF Len(models) = 0
       THEN /\ Fatal("No authorization model found")
            /\ UNCHANGED modelId
       ELSE /\ modelId' = models[1]
            /\ pc' = "check"
            /\ UNCHANGED << fatal, exitCode >>
    /\ fgaCalls' = Append(fgaCalls,
                          FgaCall("ReadAuthorizationModels", storeId, modelId, NoBody, "ok"))
    /\ UNCHANGED << db, tuples, flow, osArgs, userID, documentID, policySet, rows,
                    rowsErr, data, entities, request, allowed, storeId, stdout, env >>

FgaMain_ReadAuthorizationModelsFailed ==
    /\ pc = "readModels"
    /\ Fatal("Failed to read authorization models")
    /\ fgaCalls' = Append(fgaCalls,
                          FgaCall("ReadAuthorizationModels", storeId, modelId, NoBody, "error"))
    /\ UNCHANGED << db, tuples, flow, osArgs, userID, documentID, policySet, rows,
                    rowsErr, data, entities, request, allowed, storeId, modelId, env,
                    stdout >>

(* The tuples of the store a Check is evaluated on.                        *)
StoreTuples(store) == IF store = SeededStore THEN tuples ELSE {}

(* The server's answer to a Check on a store: the relation of the body,    *)
(* evaluated over the store's tuples (the CLI asks for can_view only).     *)
FgaCheck(store, body) ==
    Bool(body.relation = "can_view"
         /\ document_can_view(StoreTuples(store), body.user, body.object))

(* openfga checkAuthorization: one Check RPC, relation can_view.           *)
fgaCheckAuthorization ==
    /\ pc = "check"
    /\ LET body == CheckRequest(userID, documentID) IN
       \/ /\ allowed' = FgaCheck(storeId, body)
          /\ fgaCalls' = Append(fgaCalls,
                                FgaCall("Check", storeId, modelId, body, FgaCheck(storeId, body)))
          /\ pc' = "print"
          /\ UNCHANGED << fatal, exitCode >>
       \/ /\ Fatal("Authorization check failed")
          /\ fgaCalls' = Append(fgaCalls, FgaCall("Check", storeId, modelId, body, "error"))
          /\ allowed' = "false"
    /\ UNCHANGED << db, tuples, flow, osArgs, userID, documentID, policySet, rows,
                    rowsErr, data, entities, request, storeId, modelId, env, stdout >>

FgaMain_Print ==
    /\ pc = "print" /\ flow = "A"
    /\ stdout' = Append(stdout, DecisionLine(allowed, userID, documentID))
    /\ exitCode' = 0
    /\ pc' = "exit"
    /\ UNCHANGED << db, tuples, flow, osArgs, userID, documentID, policySet, rows,
                    rowsErr, data, entities, request, allowed, storeId, modelId, env, fgaCalls, fatal >>

-----------------------------------------------------------------------------

Next ==
    \/ ExecCedarCheck
    \/ ProcessExit
    \/ CedarMain_Args
    \/ CedarMain_ReadFile
    \/ CedarMain_NewPolicySet
    \/ queryEntityData_Query
    \/ queryEntityData_QueryFailed
    \/ queryEntityData_Row
    \/ queryEntityData_ScanFailed
    \/ queryEntityData_Return
    \/ queryEntityData_NextFailed
    \/ checkAuthorization
    \/ CedarMain_Print

NextFga ==
    \/ ExecOpenfgaCheck
    \/ FgaMain_Args
    \/ FgaMain_NewSdkClient
    \/ FgaMain_StoreFromEnv
    \/ FgaMain_ListStores
    \/ FgaMain_ListStoresFailed
    \/ FgaMain_ReadAuthorizationModels
    \/ FgaMain_ReadAuthorizationModelsFailed
    \/ fgaCheckAuthorization
    \/ FgaMain_Print

Spec == Init /\ [][Next]_vars

NextBoth == Next \/ NextFga

SpecFixture == InitFixture /\ [][NextBoth]_vars

(* A started program keeps executing: each call it makes returns, with a   *)
(* result or with an error, and its next statement is then run.            *)
SpecFixtureLive == InitFixture /\ [][NextBoth]_vars /\ WF_vars(NextBoth)

(* Data states with two documents and two folders, for the properties of  *)
(* the query and of the fold: alice is a member of org1, bob of no         *)
(* organization, each document is filed in one of the folders or in none,  *)
(* and up to MaxGrants grants are spread over both documents and folders.  *)
HydrationDocIds == {"doc1", "doc2"}

HydrationFolderIds == {"folder1", "folder2"}

HydrationGrantRows ==
    [resource_type : {"document"}, resource_id : HydrationDocIds, user_id : UserIds,
     permission_type : PermissionTypes]
    \cup
    [resource_type : {"folder"}, resource_id : HydrationFolderIds, user_id : UserIds,
     permission_type : PermissionTypes]

HydrationDBs ==
    {MakeDB({[user_id |-> "alice", organization_id |-> "org1"]}, f, d, g) :
        f \in [HydrationFolderIds -> [organization_id : ResourceOrgIds, owner_id : {NULL}]],
        d \in [HydrationDocIds -> [organization_id : ResourceOrgIds, owner_id : {NULL},
                                   folder_id : NullableOf(HydrationFolderIds)]],
        g \in SubsetsUpTo(HydrationGrantRows, MaxGrants)}

InitHydration ==
    /\ db \in HydrationDBs
    /\ tuples = TuplesOf(db)
    /\ ProcessInit

SpecHydration == InitHydration /\ [][Next]_vars

-----------------------------------------------------------------------------
(* The loop of queryEntityData over a whole result set, and the decisions  *)
(* Flow B can reach for (uid, did) on a data state when nothing fails:     *)
(* query, fold, graph construction and evaluation, for every result and    *)
(* row order the database may deliver.                                     *)

RECURSIVE FoldRows(_, _)
FoldRows(e, s) == IF s = << >> THEN e ELSE FoldRows(FoldRow(e, Head(s)), Tail(s))

CedarDecisions(d, uid, did) ==
    {Authorize(CedarPolicies, BuildEntities(FoldRows(NewEntityData, s), uid, did),
               BuildRequest(uid, did)).Decision :
        s \in UNION {Orderings(rs) : rs \in QueryResults(d, uid, did)}}

(* The actions the policy set names for a resource type, and those it      *)
(* permits to a principal on a resource of an entity graph.                *)
ActionsOn(t) ==
    IF t = DocumentType
    THEN {"ViewDocument", "EditDocument", "DeleteDocument", "ShareDocument"}
    ELSE IF t = FolderType
         THEN {"ViewFolder", "EditFolder", "DeleteFolder", "ShareFolder"}
         ELSE {}

RequestOf(p, a, r) ==
    [Principal |-> p, Action |-> NewEntityUID(ActionType, a), Resource |-> r,
     Context |-> EmptyRecord]

GrantedActions(ps, ents, p, r) ==
    {a \in ActionsOn(r.Type) : Authorize(ps, ents, RequestOf(p, a, r)).Decision = "Allow"}

(* The conditions of the policy set that hold for a principal on a         *)
(* resource, whatever the action.                                          *)
MatchedConditions(ps, ents, p, r) ==
    {w \in {ps[i].when : i \in 1..Len(ps)} :
        EvalWhen(ents, RequestOf(p, "ViewDocument", r), w) = "true"}

-----------------------------------------------------------------------------
(* Vocabulary of the properties: the stored facts a rule of the rule table *)
(* speaks about, and the outcome of a run.                                 *)

StoredDocs(d) == {r.id : r \in d.documents}

ParentFolderRows(d, did) ==
    {f \in d.folders : \E r \in d.documents : r.id = did /\ r.folder_id = Str(f.id)}

Memberships(d, u) ==
    {m.organization_id : m \in {x \in d.organization_members : x.user_id = u}}

IsDocOwner(d, u, did) == \E r \in d.documents : r.id = did /\ r.owner_id = Str(u)

HasDocGrant(d, u, did, k) ==
    [document_id |-> did, user_id |-> u, permission_type |-> k] \in d.document_permissions

IsFolderOwner(d, u, did) == \E f \in ParentFolderRows(d, did) : f.owner_id = Str(u)

HasFolderGrant(d, u, did, k) ==
    \E f \in ParentFolderRows(d, did) :
        [folder_id |-> f.id, user_id |-> u, permission_type |-> k] \in d.folder_permissions

IsOrgMember(d, u, did) ==
    \E r \in d.documents : r.id = did /\ r.organization_id \in Memberships(d, u)

(* The seven rules of the rule table, for the action view.                 *)
RuleTableMatches(d, u, did) ==
    \/ IsDocOwner(d, u, did)
    \/ HasDocGrant(d, u, did, "editor")
    \/ HasDocGrant(d, u, did, "viewer")
    \/ IsFolderOwner(d, u, did)
    \/ HasFolderGrant(d, u, did, "editor")
    \/ HasFolderGrant(d, u, did, "viewer")
    \/ IsOrgMember(d, u, did)

(* A run has printed its decision line and ended with status 0.            *)
Decided == pc = "exit" /\ exitCode = 0 /\ stdout # << >>

PrintedAllowed == stdout # << >> /\ stdout[Len(stdout)].kind = "ALLOWED"

PrintedDenied == stdout # << >> /\ stdout[Len(stdout)].kind = "DENIED"

(* A Flow B run decided from the complete result set of its query.         *)
CedarDecided == flow = "B" /\ Decided /\ ~rowsErr

-----------------------------------------------------------------------------
(* C1: for every data state, user U and stored document D, Flow B decides  *)
(* ALLOWED for view exactly when one of the seven rules of the rule table  *)
(* matches (owner, direct editor, direct viewer, owner / editor / viewer   *)
(* of the parent folder, member of D's organization), DENIED otherwise.    *)
C1_DecisionIsRuleTable ==
    (CedarDecided /\ documentID \in StoredDocs(db))
        => (PrintedAllowed <=> RuleTableMatches(db, userID, documentID))

(* C2: whenever the user is the stored owner of the stored document, the   *)
(* check decides ALLOWED, whatever the user's memberships and grants are.  *)
C2_OwnerAllowed ==
    (CedarDecided /\ IsDocOwner(db, userID, documentID)) => PrintedAllowed

(* The user is a member of some organization but not of the document's,    *)
(* owns neither the document nor its parent folder and holds no editor or  *)
(* viewer grant on either.                                                 *)
C3_Precondition ==
    /\ documentID \in StoredDocs(db)
    /\ Memberships(db, userID) # {}
    /\ ~IsOrgMember(db, userID, documentID)
    /\ ~IsDocOwner(db, userID, documentID)
    /\ ~IsFolderOwner(db, userID, documentID)
    /\ \A k \in PermissionTypes :
          ~HasDocGrant(db, userID, documentID, k) /\ ~HasFolderGrant(db, userID, documentID, k)

(* C3: a user who belongs to a different organization than the document,   *)
(* who owns neither the document nor its parent folder and holds no editor *)
(* or viewer grant on either, is DENIED view.                              *)
C3_ForeignUserDenied ==
    (flow = "B" /\ Decided /\ C3_Precondition) => PrintedDenied

(* Reached: such a user was denied a document on which another user holds  *)
(* a grant, from a complete result set.                                    *)
C3_Witness ==
    /\ CedarDecided /\ C3_Precondition /\ PrintedDenied
    /\ db.document_permissions # {}

(* C4: for a document with a parent folder, a user holding a viewer or an  *)
(* editor grant on that folder and no direct grant on the document is      *)
(* ALLOWED to view it, whatever the user's organization memberships.       *)
C4_FolderGrantAllowed ==
    ( /\ CedarDecided
      /\ \E k \in PermissionTypes : HasFolderGrant(db, userID, documentID, k)
      /\ \A k \in PermissionTypes : ~HasDocGrant(db, userID, documentID, k) )
        => PrintedAllowed

(* C5: every member of the document's organization is ALLOWED to view the *)
(* document, also a member of several organizations; and membership alone  *)
(* grants no action other than view.                                       *)
C5_MemberAllowedViewOnly ==
    /\ (CedarDecided /\ IsOrgMember(db, userID, documentID)) => PrintedAllowed
    /\ (CedarDecided
        /\ MatchedConditions(policySet, entities, request.Principal, request.Resource)
              = {OrgMatch})
          => GrantedActions(policySet, entities, request.Principal, request.Resource)
                \subseteq {"ViewDocument"}

(* The entity graph a run submitted, its possible principals and its       *)
(* resources; a principal matching one condition only; its action set.     *)
GraphBuilt == flow = "B" /\ pc \in {"print", "exit"} /\ DOMAIN entities # {}

GraphUsers == {NewEntityUID(UserType, u) : u \in db.users \cup {UnknownUser}}

GraphResources == {r \in DOMAIN entities : r.Type \in {DocumentType, FolderType}}

MatchesOnly(p, r, w) == MatchedConditions(policySet, entities, p, r) = {w}

Granted(p, r) == GrantedActions(policySet, entities, p, r)

(* C6: for every resource of a submitted graph, the actions permitted to   *)
(* its owner strictly include those permitted to a direct editor, which    *)
(* strictly include those permitted to a direct viewer (each principal     *)
(* matching that one rule only).                                           *)
C6_StrictSupersets ==
    GraphBuilt =>
        \A r \in GraphResources : \A p, q \in GraphUsers :
            /\ (MatchesOnly(p, r, OwnerMatch) /\ MatchesOnly(q, r, EditorMatch))
                  => (Granted(q, r) \subseteq Granted(p, r) /\ Granted(q, r) # Granted(p, r))
            /\ (MatchesOnly(p, r, EditorMatch) /\ MatchesOnly(q, r, ViewerMatch))
                  => (Granted(q, r) \subseteq Granted(p, r) /\ Granted(q, r) # Granted(p, r))

(* The direct grants of a user on a document that a grant of equal or      *)
(* higher kind (editor >= viewer) on the parent folder covers, and the     *)
(* data state after one grant is deleted.                                  *)
KindAtLeast(k2, k1) == k2 = k1 \/ (k2 = "editor" /\ k1 = "viewer")

CoveredDirectGrants(d, u, did) ==
    {g \in d.document_permissions :
        /\ g.document_id = did /\ g.user_id = u
        /\ \E k \in PermissionTypes :
              KindAtLeast(k, g.permission_type) /\ HasFolderGrant(d, u, did, k)}

WithoutDocGrant(d, g) == [d EXCEPT !.document_permissions = @ \ {g}]

PrintedDecision == IF PrintedAllowed THEN "Allow" ELSE "Deny"

(* C7: when the user holds a direct grant on the document and a grant of   *)
(* equal or higher kind on its parent folder, the check on the data state  *)
(* without the direct grant decides what the check decided with it.        *)
C7_RevokeCoveredGrant ==
    CedarDecided =>
        \A g \in CoveredDirectGrants(db, userID, documentID) :
            CedarDecisions(WithoutDocGrant(db, g), userID, documentID) = {PrintedDecision}

(* Reached: a user with a membership, a direct viewer grant and a viewer   *)
(* grant on the parent folder was ALLOWED.                                 *)
C7_Witness ==
    /\ CedarDecided /\ PrintedAllowed
    /\ CoveredDirectGrants(db, userID, documentID) # {}
    /\ Memberships(db, userID) # {}

(* A document filed in a folder belongs to the folder's organization.      *)
DataModelInvariants(d) ==
    \A r \in d.documents : \A f \in d.folders :
        r.folder_id = Str(f.id) => r.organization_id = f.organization_id

(* C8: on data satisfying the data-model invariants, can_view of the       *)
(* OpenFGA model and the Cedar policy set's permit for ViewDocument decide *)
(* the same for every (user, document).  The user has one membership, so   *)
(* that the graph's single organization attribute represents it exactly.   *)
C8_PoliciesEquivalent ==
    ( /\ CedarDecided
      /\ documentID \in StoredDocs(db)
      /\ DataModelInvariants(db)
      /\ Cardinality(Memberships(db, userID)) = 1 )
        => (PrintedAllowed <=>
               document_can_view(tuples, "user:" \o userID, "document:" \o documentID))

(* A stored user asks about a stored document; the line a scenario ends   *)
(* with.                                                                   *)
FixturePair == userID \in db.users /\ documentID \in StoredDocs(db)

FixtureScenario(u, did, line) ==
    (userID = u /\ documentID = did) => stdout[Len(stdout)].kind = line

(* C9: on the seeded fixture, Flow A (on the seeded store) and Flow B      *)
(* decide the same for each of the 5 users and 4 documents, and the six    *)
(* scenarios of the documentation come out as documented.                  *)
C9_FixtureDecisions ==
    /\ (CedarDecided /\ FixturePair)
          => /\ PrintedAllowed <=>
                   document_can_view(tuples, "user:" \o userID, "document:" \o documentID)
             /\ FixtureScenario("alice", "doc1", "ALLOWED")
             /\ FixtureScenario("charlie", "doc2", "ALLOWED")
             /\ FixtureScenario("david", "doc1", "DENIED")
             /\ FixtureScenario("bob", "doc4", "ALLOWED")
             /\ FixtureScenario("bob", "doc2", "ALLOWED")
             /\ FixtureScenario("eve", "doc1", "DENIED")
    /\ (flow = "A" /\ Decided /\ storeId = SeededStore /\ FixturePair)
          => /\ CedarDecisions(db, userID, documentID) = {PrintedDecision}
             /\ FixtureScenario("alice", "doc1", "ALLOWED")
             /\ FixtureScenario("charlie", "doc2", "ALLOWED")
             /\ FixtureScenario("david", "doc1", "DENIED")
             /\ FixtureScenario("bob", "doc4", "ALLOWED")
             /\ FixtureScenario("bob", "doc2", "ALLOWED")
             /\ FixtureScenario("eve", "doc1", "DENIED")

(* Reached: one of the programs has answered one of the scenarios.         *)
C9_Witness ==
    /\ Decided /\ FixturePair /\ ~rowsErr
    /\ \/ flow = "B" /\ userID = "bob" /\ documentID = "doc2" /\ PrintedAllowed
       \/ flow = "A" /\ storeId = SeededStore /\ userID = "david" /\ documentID = "doc1"
          /\ PrintedDenied

(* C10: when documentID names no stored document, or userID no stored      *)
(* user, the run ends in a failure: non-zero exit status and no decision   *)
(* line.                                                                   *)
C10_NotFoundFails ==
    (flow = "B" /\ pc = "exit" /\ userID # ""
     /\ (documentID \notin StoredDocs(db) \/ userID \notin db.users))
        => (exitCode # 0 /\ stdout = << >>)

(* The users an aggregate lists under one grant kind, and the users the    *)
(* tables store for the document and for its parent folder.                *)
Listed(m, k) == {MapGet(m, k)[i] : i \in 1..Len(MapGet(m, k))}

StoredDocGrantees(d, did, k) == {u \in d.users : HasDocGrant(d, u, did, k)}

StoredFolderGrantees(d, did, k) == {u \in d.users : HasFolderGrant(d, u, did, k)}

(* The aggregate carries the document's stored id, organization, parent    *)
(* folder, owner and both grant mappings.                                  *)
CarriesStoredDocument(e, d, did) ==
    \E r \in d.documents :
        /\ r.id = did
        /\ e.DocumentID = did
        /\ e.DocumentOrg = r.organization_id
        /\ e.FolderID = r.folder_id
        /\ e.DocumentOwner = r.owner_id
        /\ \A k \in PermissionTypes :
              /\ Listed(e.DocumentPermissions, k) = StoredDocGrantees(d, did, k)
              /\ Listed(e.FolderPermissions, k) = StoredFolderGrantees(d, did, k)

(* C11: for a user without organization membership and a stored document,  *)
(* queryEntityData returns, without error, an aggregate whose user          *)
(* organization is absent and whose document fields and grant mappings are *)
(* those stored for the document.                                          *)
C11_NoMembershipAggregate ==
    ( /\ flow = "B" /\ pc = "checkAuthorization" /\ ~rowsErr
      /\ userID \in db.users
      /\ Memberships(db, userID) = {}
      /\ documentID \in StoredDocs(db) )
        => /\ data.UserOrganization = ""
           /\ CarriesStoredDocument(data, db, documentID)

-----------------------------------------------------------------------------
(* Outcomes of a run and the error conditions it met.                      *)

DecisionLines == {i \in 1..Len(stdout) : stdout[i].kind \in {"ALLOWED", "DENIED"}}

UsageMessages ==
    {"Usage: ./cedar-check <userID> <documentID>", "Usage: ./openfga-check <userID> <documentID>"}

(* The storage failed during hydration: db.Query or rows.Scan returned an  *)
(* error, or the iteration over the rows was interrupted.                  *)
StorageFailed == fatal = "Failed to query entity data" \/ rowsErr

(* The identifiers of the command line name no stored user or document.    *)
NotFound ==
    flow = "B" /\ userID # "" /\ (documentID \notin StoredDocs(db) \/ userID \notin db.users)

(* Some error condition occurred in the run: a fatal diagnostic (usage,    *)
(* configuration, data access, evaluation, RPC), a storage failure or an   *)
(* unresolvable identifier.                                                *)
ErrorOccurred == fatal # "" \/ StorageFailed \/ NotFound

(* C12: a storage failure during hydration (query, scan, or interrupted    *)
(* iteration) ends the run with a non-zero status and no decision line.    *)
C12_StorageFailureFails ==
    (flow = "B" /\ pc = "exit" /\ StorageFailed) => (exitCode # 0 /\ DecisionLines = {})

(* C13: a run in which an error condition occurred prints no ALLOWED line, *)
(* and checkAuthorization returns false whenever it returns an error.      *)
C13_NoAllowedOnError ==
    /\ (pc = "exit" /\ ErrorOccurred)
          => \A i \in 1..Len(stdout) : stdout[i].kind # "ALLOWED"
    /\ fatal \in {"Authorization failed", "Authorization check failed"} => allowed = "false"

(* C14: a run prints at most one decision line, ends with status 0 exactly *)
(* when it printed one, and on any error condition ends with a non-zero    *)
(* status, a diagnostic and no decision line.                              *)
C14_OneDecisionIffSuccess ==
    pc = "exit" =>
        /\ Cardinality(DecisionLines) <= 1
        /\ exitCode = 0 <=> Cardinality(DecisionLines) = 1
        /\ ErrorOccurred => (exitCode # 0 /\ fatal # "" /\ DecisionLines = {})

(* C15: whenever the command line does not carry exactly two positional    *)
(* arguments, the run prints the usage message, ends with a non-zero       *)
(* status and has processed nothing.                                       *)
C15_WrongArgCountIsUsage ==
    (pc = "exit" /\ Len(osArgs) # 2)
        => /\ fatal \in UsageMessages
           /\ exitCode # 0
           /\ policySet = << >> /\ rows = << >> /\ DOMAIN entities = {}
           /\ storeId = "" /\ modelId = "" /\ allowed = "unset" /\ stdout = << >>

(* The diagnostics of a configuration error: no reachable store or model   *)
(* (Flow A), no readable policy file (Flow B).                             *)
ConfigurationErrors ==
    {"Failed to list stores", "No OpenFGA store found",
     "Failed to read authorization models", "No authorization model found",
     "Failed to load policies"}

(* C16: when a run ends in a configuration error, nothing was written to   *)
(* standard output before the failure.                                     *)
C16_NoPartialOutput ==
    (pc = "exit" /\ fatal \in ConfigurationErrors) => stdout = << >>

(* A conjunct of a condition reads an attribute that the submitted graph   *)
(* does not carry.                                                         *)
ReadsAbsent(ents, req, c) ==
    /\ c.op # "has"
    /\ \/ ~BaseOf(ents, req, c).ok
       \/ ~HasAttr(ents, BaseOf(ents, req, c).v, c.attr)
       \/ c.op = "attreq" /\ ~HasAttr(ents, req.Principal, c.attr)

ReferencesAbsent(ents, req, w) == \E i \in 1..Len(w) : ReadsAbsent(ents, req, w[i])

RefsOf(rec) ==
    {rec[a] : a \in DOMAIN rec \cap {"organization", "owner", "parent_folder"}}
    \cup UNION {rec[a] : a \in DOMAIN rec \cap {"editors", "viewers"}}

DanglingRefs(ents) == (UNION {RefsOf(ents[u]) : u \in DOMAIN ents}) \ DOMAIN ents

(* C18: when an attribute of the submitted graph references an entity      *)
(* identifier without an entity record in the graph, the evaluation fails  *)
(* with an error and yields no decision.                                   *)
C18_InvalidGraphFails ==
    (flow = "B" /\ pc \in {"print", "exit"} /\ DOMAIN entities # {}
     /\ DanglingRefs(entities) # {})
        => (fatal = "Authorization failed" /\ allowed = "false" /\ DecisionLines = {})

(* The Check requests a run of Flow A has sent so far.                     *)
IsCheck(c) == c.api = "Check"

Checks == SelectSeq(fgaCalls, IsCheck)

(* C19: Flow A sends at most one Check, exactly one in a successful run,   *)
(* for user "user:<userID>", relation "can_view" and object                 *)
(* "document:<documentID>", with the store id and the model id set on the  *)
(* client, and prints ALLOWED for true and DENIED for false.               *)
C19_SingleCheck ==
    flow = "A" =>
        /\ Len(Checks) <= 1
        /\ \A i \in 1..Len(Checks) :
              /\ Checks[i].user = "user:" \o userID
              /\ Checks[i].relation = "can_view"
              /\ Checks[i].object = "document:" \o documentID
              /\ Checks[i].store # "" /\ Checks[i].store = storeId
              /\ Checks[i].model # "" /\ Checks[i].model = modelId
              /\ fgaCalls[Len(fgaCalls)] = Checks[i]
        /\ Decided =>
              /\ Len(Checks) = 1
              /\ Checks[1].result \in {"true", "false"}
              /\ Checks[1].result = "true" <=> PrintedAllowed
              /\ Checks[1].result = "false" <=> PrintedDenied
              /\ Cardinality(DecisionLines) = 1

(* Reached: a run that discovered its store and model sent its Check and   *)
(* printed ALLOWED.                                                        *)
C19_Witness ==
    /\ flow = "A" /\ Decided /\ PrintedAllowed
    /\ Len(fgaCalls) = 3 /\ Len(Checks) = 1

(* A request of the given kind has been sent in this run.                  *)
Called(api) == \E i \in 1..Len(fgaCalls) : fgaCalls[i].api = api

(* C20: in Flow A an identifier present in the environment is the one set  *)
(* on the client, and the discovery request for an identifier (ListStores, *)
(* ReadAuthorizationModels) is sent only when the environment lacks it.    *)
C20_EnvBeforeDiscovery ==
    flow = "A" =>
        /\ (env.OPENFGA_STORE_ID # "" /\ storeId # "") => storeId = env.OPENFGA_STORE_ID
        /\ Called("ListStores") => env.OPENFGA_STORE_ID = ""
        /\ (env.OPENFGA_MODEL_ID # "" /\ modelId # "") => modelId = env.OPENFGA_MODEL_ID
        /\ Called("ReadAuthorizationModels") => env.OPENFGA_MODEL_ID = ""

-----------------------------------------------------------------------------
(* queryEntityData has returned the aggregate of a complete result set for *)
(* a stored document and a user with a membership.                         *)
Hydrated ==
    /\ flow = "B" /\ pc = "checkAuthorization" /\ ~rowsErr
    /\ Memberships(db, userID) # {}
    /\ documentID \in StoredDocs(db)

(* C21: for a stored document and a user with a membership, the aggregate  *)
(* lists under each kind of DocumentPermissions exactly the users holding  *)
(* a stored grant of that kind on the document, and under each kind of     *)
(* FolderPermissions exactly those holding one on its parent folder; no    *)
(* grant of another document or folder, or of the other table, appears.    *)
C21_GrantMappingsAreStored ==
    Hydrated =>
        /\ DOMAIN data.DocumentPermissions \subseteq PermissionTypes
        /\ DOMAIN data.FolderPermissions \subseteq PermissionTypes
        /\ \A k \in PermissionTypes :
              /\ Listed(data.DocumentPermissions, k) = StoredDocGrantees(db, documentID, k)
              /\ Listed(data.FolderPermissions, k) = StoredFolderGrantees(db, documentID, k)

(* Reached: the aggregate of a document with a grant on its parent folder, *)
(* while another document carries a direct grant.                          *)
C21_Witness ==
    /\ Hydrated
    /\ DOMAIN data.FolderPermissions # {}
    /\ DOMAIN data.DocumentPermissions = {}
    /\ \E g \in db.document_permissions : g.document_id # documentID

(* No user occurs twice under a kind of a grant mapping; two aggregates    *)
(* agree on their scalar fields and, as sets, on their grant mappings.     *)
NoDuplicates(m) ==
    \A k \in DOMAIN m : \A i, j \in 1..Len(m[k]) : m[k][i] = m[k][j] => i = j

SameAggregate(e1, e2) ==
    /\ [e1 EXCEPT !.DocumentPermissions = EmptyMap, !.FolderPermissions = EmptyMap]
         = [e2 EXCEPT !.DocumentPermissions = EmptyMap, !.FolderPermissions = EmptyMap]
    /\ \A k \in PermissionTypes :
          /\ Listed(e1.DocumentPermissions, k) = Listed(e2.DocumentPermissions, k)
          /\ Listed(e1.FolderPermissions, k) = Listed(e2.FolderPermissions, k)

(* C22: after the fold of a result set of the query, each user occurs at   *)
(* most once under each kind of DocumentPermissions and FolderPermissions, *)
(* and every order of the same rows gives the same aggregate (its grant    *)
(* lists taken as sets) and the same entity graph.                         *)
C22_FoldIsSetLike ==
    (flow = "B" /\ pc = "checkAuthorization" /\ ~rowsErr) =>
        /\ NoDuplicates(data.DocumentPermissions)
        /\ NoDuplicates(data.FolderPermissions)
        /\ \A rs \in QueryResults(db, userID, documentID) : \A s \in Orderings(rs) :
              LET e == FoldRows(NewEntityData, s) IN
              e.UserOrganization = data.UserOrganization =>
                  /\ SameAggregate(e, data)
                  /\ BuildEntities(e, userID, documentID)
                        = BuildEntities(data, userID, documentID)

(* Reached: two users hold the same kind of grant on the document, so the  *)
(* rows can arrive in two orders.                                          *)
C22_Witness ==
    /\ flow = "B" /\ pc = "checkAuthorization" /\ ~rowsErr
    /\ \E k \in DOMAIN data.DocumentPermissions : Len(data.DocumentPermissions[k]) = 2

(* The stored document has no parent folder; the conditions of the policy  *)
(* set that go through the parent folder.                                  *)
NoParentFolder(d, did) == \E r \in d.documents : r.id = did /\ ~r.folder_id.Valid

FolderDerivedConditions == {FolderEditorMatch, FolderOwnerMatch, FolderViewerMatch}

(* C23: for a document without parent folder the aggregate has no FolderID, *)
(* FolderOrg or FolderOwner and an empty FolderPermissions, the document    *)
(* entity has no parent_folder attribute, the graph holds no Folder entity *)
(* and no rule through the parent folder is satisfied, whatever is stored  *)
(* for the folders.                                                        *)
C23_NoParentFolder ==
    (flow = "B" /\ NoParentFolder(db, documentID)) =>
        /\ data.FolderID = NULL /\ data.FolderOrg = NULL /\ data.FolderOwner = NULL
        /\ data.FolderPermissions = EmptyMap
        /\ DOMAIN entities # {} =>
              /\ "parent_folder" \notin DOMAIN entities[request.Resource]
              /\ \A u \in DOMAIN entities : u.Type # FolderType
              /\ \A i \in 1..Len(policySet) :
                    policySet[i].when \in FolderDerivedConditions
                        => EvalWhen(entities, request, policySet[i].when) = "false"

(* Reached: a user who holds a grant on a folder, and is a member of       *)
(* another organization than the document's, was denied a document that    *)
(* is filed in no folder.                                                  *)
C23_Witness ==
    /\ CedarDecided /\ PrintedDenied
    /\ NoParentFolder(db, documentID)
    /\ Memberships(db, userID) # {}
    /\ \E g \in db.folder_permissions : g.user_id = userID

-----------------------------------------------------------------------------
(* The positions of cedar-check's main, in program order, and those that   *)
(* can follow each.                                                        *)
PipelineSuccessors(p) ==
    IF p = "main" THEN {"readFile", "exit"}
    ELSE IF p = "readFile" THEN {"parsePolicies", "exit"}
    ELSE IF p = "parsePolicies" THEN {"query", "exit"}
    ELSE IF p = "query" THEN {"rowsNext", "exit"}
    ELSE IF p = "rowsNext" THEN {"rowsNext", "checkAuthorization", "exit"}
    ELSE IF p = "checkAuthorization" THEN {"print", "exit"}
    ELSE IF p = "print" THEN {"exit"}
    ELSE IF p = "exit" THEN {"idle"}
    ELSE {"main"}

(* One step of a Flow B run: it moves forward in program order (the fold   *)
(* stays in place while it consumes a row), a failure ends the run, and    *)
(* each effect belongs to its own step.                                    *)
PipelineStep ==
    (flow = "B" /\ pc # "exit") =>
        /\ flow' = "B"
        /\ pc' \in PipelineSuccessors(pc)
        /\ pc' = pc => Len(rows') < Len(rows)
        /\ fatal' # "" => pc' = "exit"
        /\ policySet' # policySet => pc = "parsePolicies"
        /\ (rows' # rows \/ data' # data) => pc \in {"query", "rowsNext"}
        /\ (entities' # entities \/ request' # request \/ allowed' # allowed)
              => pc = "checkAuthorization"
        /\ stdout' # stdout => (pc = "print" /\ Len(stdout') = 1)

-----------------------------------------------------------------------------
-----------------------------------------------------------------------------
(* C26: the request of a Flow B run has principal User::<userID> and       *)
(* resource Document::<documentID> from the command line, action           *)
(* ViewDocument and an empty context, whatever the aggregate holds, and    *)
(* both the principal and the resource have an entity record in the graph, *)
(* also when the query returned no row.                                    *)
C26_RequestFromArguments ==
    (flow = "B" /\ DOMAIN entities # {}) =>
        /\ request = [Principal |-> NewEntityUID(UserType, osArgs[1]),
                      Action |-> NewEntityUID(ActionType, "ViewDocument"),
                      Resource |-> NewEntityUID(DocumentType, osArgs[2]),
                      Context |-> EmptyRecord]
        /\ request.Principal \in DOMAIN entities
        /\ request.Resource \in DOMAIN entities

(* Reached: a run whose query returned no row has built its graph and      *)
(* printed a decision.                                                     *)
C26_Witness ==
    /\ CedarDecided /\ data.DocumentID = ""
    /\ documentID \in StoredDocs(db)
    /\ request.Resource = NewEntityUID(DocumentType, documentID)

-----------------------------------------------------------------------------
(* An attribute is on an entity exactly when a condition holds, and a set  *)
(* attribute that is present is not empty.                                 *)
AttrIff(rec, a, present) == (a \in DOMAIN rec) <=> present

SetAttrIff(rec, a, list) ==
    /\ (a \in DOMAIN rec) <=> (Len(list) > 0)
    /\ a \in DOMAIN rec => rec[a] # {}

(* C27: an attribute is on an entity of the submitted graph exactly when   *)
(* the aggregate field it comes from is present (non-empty string, non-nil *)
(* pointer, non-empty list), and the graph holds a Folder entity exactly   *)
(* when the document entity has a parent_folder attribute, which then      *)
(* names that entity.                                                      *)
C27_AttributesIffFields ==
    (flow = "B" /\ DOMAIN entities # {}) =>
        LET usr == entities[request.Principal]
            doc == entities[request.Resource]
            fid == NewEntityUID(FolderType, data.FolderID.String)
            folders == {u \in DOMAIN entities : u.Type = FolderType}
        IN  /\ AttrIff(usr, "organization", data.UserOrganization # "")
            /\ AttrIff(doc, "organization", data.DocumentOrg # "")
            /\ AttrIff(doc, "owner", data.DocumentOwner.Valid)
            /\ AttrIff(doc, "parent_folder", data.FolderID.Valid)
            /\ SetAttrIff(doc, "editors", MapGet(data.DocumentPermissions, "editor"))
            /\ SetAttrIff(doc, "viewers", MapGet(data.DocumentPermissions, "viewer"))
            /\ folders = (IF "parent_folder" \in DOMAIN doc THEN {doc["parent_folder"]} ELSE {})
            /\ \A f \in folders :
                  /\ f = fid
                  /\ AttrIff(entities[f], "organization", data.FolderOrg.Valid)
                  /\ AttrIff(entities[f], "owner", data.FolderOwner.Valid)
                  /\ SetAttrIff(entities[f], "editors", MapGet(data.FolderPermissions, "editor"))
                  /\ SetAttrIff(entities[f], "viewers", MapGet(data.FolderPermissions, "viewer"))

(* Reached: a graph whose document has viewers but neither owner nor       *)
(* editors, and whose folder has an owner but no grants.                   *)
C27_Witness ==
    /\ CedarDecided
    /\ data.FolderID.Valid /\ data.FolderOwner.Valid /\ ~data.DocumentOwner.Valid
    /\ "viewers" \in DOMAIN entities[request.Resource]
    /\ "editors" \notin DOMAIN entities[request.Resource]
    /\ DOMAIN data.FolderPermissions = {}

-----------------------------------------------------------------------------
(* C28: the decision is a function of the stored data, the policy and the  *)
(* two arguments: every run of the check with the arguments of this run on *)
(* this data state prints the decision this run printed.                   *)
C28_DecisionIsDeterministic ==
    CedarDecided => Cardinality(CedarDecisions(db, userID, documentID) \cup {PrintedDecision}) = 1

-----------------------------------------------------------------------------
(* The two ways a run ends: a decision line and status 0, or a diagnostic  *)
(* and a non-zero status.                                                  *)
EndedWithDecision == exitCode = 0 /\ fatal = "" /\ Cardinality(DecisionLines) = 1

EndedWithDiagnostic == exitCode # 0 /\ fatal # "" /\ DecisionLines = {}

(* One pass of the rows.Next() loop takes the first undelivered row, folds *)
(* it and leaves the others.                                               *)
LoopStep ==
    (pc = "rowsNext" /\ pc' = "rowsNext")
        => (rows # << >> /\ rows' = Tail(rows) /\ data' = FoldRow(data, Head(rows)))

(* C29: every started run of either program ends, in exactly one of the    *)
(* two outcomes (decision and status 0, or diagnostic and non-zero         *)
(* status); the loop of queryEntityData consumes one row per pass and ends *)
(* when the result set is exhausted.                                       *)
C29_Terminates ==
    /\ (pc = "main") ~> (pc = "exit")
    /\ [](pc = "exit" => (EndedWithDecision # EndedWithDiagnostic))
    /\ [][LoopStep]_vars
    /\ []((pc = "checkAuthorization" /\ ~rowsErr) => rows = << >>)

(* Reached: a run folded a result set of two rows or more and ended with   *)
(* a decision.                                                             *)
C29_Witness ==
    /\ CedarDecided /\ EndedWithDecision /\ rows = << >>
    /\ Cardinality(doc_perms(db, documentID)
                    \cup folder_perms(db, doc_info(db, documentID))) >= 2

-----------------------------------------------------------------------------
(* The scalar fields of an aggregate, and the numbers of stored grants on  *)
(* a document and on its parent folder.                                    *)
ScalarsOf(e) == [e EXCEPT !.DocumentPermissions = EmptyMap, !.FolderPermissions = EmptyMap]

GrantMappingsOf(e) == << e.DocumentPermissions, e.FolderPermissions >>

CarriesNoGrant(row) ==
    \/ row.perm_user_id = ""
    \/ row.perm_type = ""
    \/ row.resource_type \notin {"document", "folder"}

DocGrantCount(d, did) == Cardinality({g \in d.document_permissions : g.document_id = did})

FolderGrantCount(d, did) ==
    Cardinality({g \in d.folder_permissions :
                    \E f \in ParentFolderRows(d, did) : g.folder_id = f.id})

Max(a, b) == IF a >= b THEN a ELSE b

(* One pass of the loop: a row after the first leaves the scalar fields    *)
(* as they are, the first row sets them from its columns, and a row that   *)
(* carries no grant leaves both grant mappings as they are.                *)
FoldFrame ==
    (pc = "rowsNext" /\ pc' = "rowsNext" /\ rows # << >>) =>
        LET row == Head(rows) IN
        /\ data # NewEntityData => ScalarsOf(data') = ScalarsOf(data)
        /\ data = NewEntityData =>
              ScalarsOf(data') = [ScalarsOf(NewEntityData) EXCEPT
                                     !.UserOrganization = row.user_org_id.String,
                                     !.DocumentID = row.doc_id.String,
                                     !.DocumentOrg = row.doc_org_id.String,
                                     !.FolderID = row.folder_id,
                                     !.DocumentOwner = row.doc_owner_id,
                                     !.FolderOrg = row.folder_org_id,
                                     !.FolderOwner = row.folder_owner_id]
        /\ CarriesNoGrant(row) => GrantMappingsOf(data') = GrantMappingsOf(data)

(* C30: while folding, the scalar fields of the aggregate are assigned     *)
(* from the first row only, later rows change the grant mappings only, a   *)
(* row without grant user, kind or known resource type adds no grant; and  *)
(* for a stored document and a user with a membership the query yields     *)
(* max(1, d + f) rows, d and f the numbers of grants on the document and   *)
(* on its parent folder.                                                   *)
C30_FoldFrameAndRowCount ==
    /\ [][FoldFrame]_vars
    /\ []((flow = "B" /\ pc = "rowsNext" /\ data = NewEntityData
           /\ Memberships(db, userID) # {} /\ documentID \in StoredDocs(db))
             => Len(rows) = Max(1, DocGrantCount(db, documentID)
                                   + FolderGrantCount(db, documentID)))

(* Reached: the rows of a document with a direct grant and a grant on its  *)
(* parent folder were all folded.                                          *)
C30_Witness ==
    /\ Hydrated /\ rows = << >>
    /\ DocGrantCount(db, documentID) = 1 /\ FolderGrantCount(db, documentID) = 1
    /\ DOMAIN data.DocumentPermissions # {} /\ DOMAIN data.FolderPermissions # {}

====
